---- MODULE Spec2Model ----
(***************************************************************************)
(* A model of builder.mjs (src/unnamed/part_002): the template expansion   *)
(* pipeline resolveIncludes / expandLoops / applyVariables.                *)
(*                                                                         *)
(* Text.  A text is the sequence of its lines (the text split at "\n"),    *)
(* so the empty text is <<Blank>> and "\nX\n" is <<Blank, X, Blank>>.      *)
(* A line is a record: its kind, its indentation, and its tokens.  A token *)
(* is a record [t, s, m]: literal text, a placeholder ${s} or ${s|m}.      *)
(***************************************************************************)
EXTENDS Integers, Sequences, FiniteSets, TLC

(***************************************************************************)
(* Bounds of the model.                                                    *)
(***************************************************************************)
\* the largest loop bound N written in a `for v < N` line of an input
MaxBound == 2
\* the number of lines of the documents given to expandLoops
MaxLines == 4
\* the longest text (in lines) the loop expander may build: the model of the
\* memory the process has; larger than anything a terminating expansion of
\* a MaxLines document builds
MaxTextLen == 40

(***************************************************************************)
(* Tokens and lines.                                                       *)
(***************************************************************************)
Lit(s) == [t |-> "lit", s |-> s, m |-> ""]
\* ${name} (m = "") or ${name|m}
Ph(name, m) == [t |-> "ph", s |-> name, m |-> m]

\* String(i) of expandLoops line 498: the decimal text of a loop index
Dec(i) ==
  LET digit(d) == <<"0", "1", "2", "3", "4", "5", "6", "7", "8", "9">>[d + 1]
  IN  IF i < 10 THEN digit(i) ELSE digit(i \div 10) \o digit(i % 10)

\* a bound as it is written after `<`: digits (kind "num"), a minus sign and
\* digits ("neg"), or something that is no number ("nan")
Lim(kind, n) == [kind |-> kind, n |-> n]
NoLim == Lim("none", 0)

Blank == [k |-> "blank", ind |-> 0, v |-> "", lim |-> NoLim, toks |-> <<>>]
\* `for v < lim` at indentation ind
ForLine(ind, v, lim) == [k |-> "for", ind |-> ind, v |-> v, lim |-> lim, toks |-> <<>>]
\* `endfor` at indentation ind
EndFor(ind) == [k |-> "endfor", ind |-> ind, v |-> "", lim |-> NoLim, toks |-> <<>>]
\* a line of other text
Text(ind, toks) == [k |-> "text", ind |-> ind, v |-> "", lim |-> NoLim, toks |-> toks]
\* `include <path>` at indentation ind; toks are the tokens of the raw path
Inc(ind, toks) == [k |-> "include", ind |-> ind, v |-> "", lim |-> NoLim, toks |-> toks]
\* a line that is exactly `$&`, at column 0
AmpLine == Text(0, <<Lit("$&")>>)

IsBlank(l) == l.k = "blank"

\* the text a ++ b of two texts: the last line of a and the first of b join
JoinLine(a, b) ==
  IF IsBlank(a) THEN b
  ELSE IF IsBlank(b) THEN a
  ELSE [a EXCEPT !.toks = a.toks \o b.toks]

TextCat(a, b) ==
  SubSeq(a, 1, Len(a) - 1) \o <<JoinLine(a[Len(a)], b[1])>> \o SubSeq(b, 2, Len(b))

EmptyText == <<Blank>>

(***************************************************************************)
(* expandLoops (lines 482-507).                                            *)
(***************************************************************************)
\* the header part of loopRegex, line 483:
\*   for\s+([a-zA-Z_][\w]*)\s*<\s*(\d+)   -- (\d+) takes digits only
HeaderMatches(l) == l.k = "for" /\ l.lim.kind = "num"

\* the number of blank lines that directly follow line p of d
RECURSIVE BlanksAfter(_, _)
BlanksAfter(d, p) ==
  IF p + 1 <= Len(d) /\ IsBlank(d[p + 1]) THEN 1 + BlanksAfter(d, p + 1) ELSE 0

\* ^\1endfor\s*$ at line start s, \1 being nb empty lines and ind blanks
EndForAt(d, s, nb, ind) ==
  /\ s + nb <= Len(d)
  /\ \A x \in s .. (s + nb - 1) : IsBlank(d[x])
  /\ d[s + nb].k = "endfor"
  /\ d[s + nb].ind = ind

\* The match of loopRegex that starts at the start of line q, or NoMatch.
\*   ^(\s*)  takes the blank lines q..p-1 and the indentation of line p;
\*   \s*$    after the bound takes c blank lines, as many as it can (greedy);
\*   ([\s\S]*?)  is the shortest body that reaches a line start s where
\*               ^\1endfor matches;   \s*$ takes the t blank lines after it.
NoMatch == [ok |-> FALSE, q |-> 0, p |-> 0, c |-> 0, s |-> 0, e |-> 0, t |-> 0]

MatchAt(d, q) ==
  LET nonblank == {x \in q .. Len(d) : ~IsBlank(d[x])}
  IN  IF nonblank = {} THEN NoMatch
      ELSE
        LET p  == CHOOSE x \in nonblank : \A y \in nonblank : x <= y
            nb == p - q
            h  == BlanksAfter(d, p)
            from(c) == IF c = 0 THEN p + 1 ELSE p + c
            ends(c) == {s \in from(c) .. Len(d) : EndForAt(d, s, nb, d[p].ind)}
            cs == {c \in 0 .. h : ends(c) # {}}
        IN  IF ~HeaderMatches(d[p]) \/ cs = {} THEN NoMatch
            ELSE
              LET c == CHOOSE x \in cs : \A y \in cs : y <= x
                  s == CHOOSE x \in ends(c) : \A y \in ends(c) : x <= y
                  e == s + nb
              IN  [ok |-> TRUE, q |-> q, p |-> p, c |-> c, s |-> s, e |-> e,
                   t |-> BlanksAfter(d, e)]

\* output.match(loopRegex), line 489: the leftmost match
LoopRegexMatch(d) ==
  LET qs == {q \in 1 .. Len(d) : MatchAt(d, q).ok}
  IN  IF qs = {} THEN NoMatch
      ELSE MatchAt(d, CHOOSE q \in qs : \A y \in qs : q <= y)

\* match[0]: the whole matched text, lines q .. e+t
MatchFull(d, m) == SubSeq(d, m.q, m.e + m.t)

\* match[4]: the text between the end of line p+c and the start of line s
MatchBody(d, m) ==
  IF m.s = m.p + m.c THEN EmptyText
  ELSE <<Blank>> \o SubSeq(d, m.p + m.c + 1, m.s - 1) \o <<Blank>>

\* parseInt(limitStr, 10) || 0, line 491
ParseLimit(lim) == IF lim.kind = "num" THEN lim.n ELSE 0

\* body.replace(varPattern, idx), lines 494-499: ${varName}, with no
\* modifier, becomes the index
SubstToken(tok, varName, i) ==
  IF tok.t = "ph" /\ tok.s = varName /\ tok.m = "" THEN Lit(Dec(i)) ELSE tok

SubstLine(l, varName, i) ==
  [l EXCEPT !.toks = [x \in DOMAIN l.toks |-> SubstToken(l.toks[x], varName, i)]]

SubstBody(body, varName, i) ==
  [x \in DOMAIN body |-> SubstLine(body[x], varName, i)]

\* the for loop of lines 496-501: repeated = iter(0) ++ ... ++ iter(limit-1)
RECURSIVE Repeated(_, _, _, _)
Repeated(body, varName, i, limit) ==
  IF i >= limit THEN EmptyText
  ELSE TextCat(SubstBody(body, varName, i), Repeated(body, varName, i + 1, limit))

\* The replacement patterns of String.prototype.replace(string, string),
\* line 503: in the replacement text `$$` stands for `$` and `$&` for the
\* matched text.
DollarToken(tok) == IF tok = Lit("$$") THEN Lit("$") ELSE tok

DollarLine(l) == [l EXCEPT !.toks = [x \in DOMAIN l.toks |-> DollarToken(l.toks[x])]]

RECURSIVE ReplacementText(_, _)
ReplacementText(repeated, full) ==
  IF Len(repeated) = 0 THEN <<>>
  ELSE (IF Head(repeated) = AmpLine THEN full ELSE <<DollarLine(Head(repeated))>>)
       \o ReplacementText(Tail(repeated), full)

\* one iteration of the while loop, lines 489-504
ExpandOnce(d, m) ==
  LET full     == MatchFull(d, m)
      body     == MatchBody(d, m)
      limit    == ParseLimit(d[m.p].lim)
      repeated == Repeated(body, d[m.p].v, 0, limit)
  IN  SubSeq(d, 1, m.q - 1) \o ReplacementText(repeated, full)
        \o SubSeq(d, m.e + m.t + 1, Len(d))

(***************************************************************************)
(* Paths and the file system.  A path is the sequence of its tokens; the   *)
(* project root is the one token RootDir.                                  *)
(***************************************************************************)
RootDir == Lit("/root/")
DotSlash == Lit("./")

RECURSIVE Normalize(_)
\* path.resolve drops the `./` segments of a relative path
Normalize(p) ==
  IF Len(p) = 0 THEN <<>>
  ELSE IF Head(p) = DotSlash THEN Normalize(Tail(p))
  ELSE <<Head(p)>> \o Normalize(Tail(p))

\* path.resolve(ROOT, filePath), lines 39 and 60: an absolute path is kept,
\* a relative one is taken from the project root
PathResolve(p) ==
  IF Len(p) > 0 /\ Head(p) = RootDir THEN p ELSE <<RootDir>> \o Normalize(p)

\* the path as it is, still absolute
PathRelative_Absolute(abs) == abs

\* path.relative(ROOT, absPath), lines 43 and 63
PathRelative(abs) == Tail(abs)

\* includePathRaw.trim(), line 59: the path tokens of an include line
IncludePath(l) == l.toks

\* the stub of lines 44 and 65
StubLine(ind, rel) ==
  Text(ind, <<Lit("<div style=\"border:1px red dotted\">INCLUDE ERROR: ")>> \o rel
            \o <<Lit(" not found</div>")>>)

IndexTpl == <<RootDir, Lit("index.tmpl.html")>>

VARIABLES
  fs,      \* the template files: absolute path -> text (fs.existsSync, readFile)
  arg,     \* filePath of the resolveIncludes call being entered
  seen,    \* the Set `seen` shared by the calls of one resolution
  stack,   \* the active resolveIncludes calls, the innermost last
  output,  \* `output` of the running expandLoops call
  pc,      \* where the program is
  retval,  \* what the call that returned last returned
  hist,    \* what has happened so far (observations the properties read)
  html,        \* applyVariables: the text, as its tokens
  contentMap,  \* applyVariables: the content dataset
  mode,        \* applyVariables: "dev" (preview) or "build" (carrier)
  processed,   \* the text String.replace has built so far, a piece per token
  varMeta,     \* the descriptors registered so far, in the order of insertion
  diag,         \* the console.warn calls so far
  metaTags,    \* the <meta> lines generateMktoMetaTags has built
  objectProto, \* the properties the process has added to Object.prototype
  src,         \* the sources beside the templates: the scss and content.yaml
  dist,        \* the files written: styles.css, index.html, index.marketo.html
  todo,        \* the build functions run() or the watcher callback has yet to call
  step,        \* where a build function is: resolving includes or applying variables
  events,      \* the number of watch events handled
  first,       \* the sources and the outputs of the first build of the process
  writes       \* the last watch event and the files written since

varVars == <<html, contentMap, mode, processed, varMeta, diag, metaTags>>

runVars == <<objectProto, src, dist, todo, step, events, first, writes>>

vars == <<fs, arg, seen, stack, output, pc, retval, hist, varVars, runVars>>

Frame(abs) == [absPath |-> abs, content |-> <<>>, i |-> 1, out |-> EmptyText]

NoHist == [html |-> <<>>, refs |-> <<>>, exp |-> <<>>]

\* applyVariables is not running
\* no content, no css
NoSrc == [argv |-> "once", scss |-> 0, yaml |-> <<>>]

\* a file that has not been written
NotWritten == [written |-> FALSE]

NoDist == [styles |-> NotWritten, index |-> NotWritten, marketo |-> NotWritten]

NoFirst == [set |-> FALSE]

\* the state of a process in which run() is not modelled
NoRun ==
  /\ objectProto = {}
  /\ src = NoSrc
  /\ dist = NoDist
  /\ todo = <<>>
  /\ step = "none"
  /\ events = 0
  /\ first = NoFirst
  /\ writes = [event |-> "none", files |-> {}]

NoVariables ==
  /\ html = <<>>
  /\ contentMap = <<>>
  /\ mode = "dev"
  /\ processed = <<>>
  /\ varMeta = <<>>
  /\ diag = <<>>
  /\ metaTags = <<>>
  /\ NoRun

(***************************************************************************)
(* expandLoops as steps: one action per iteration of its while loop.       *)
(***************************************************************************)
\* lines 489-504: a loop matches, and it is replaced
ExpandLoopsStep ==
  /\ pc = "expandLoops"
  /\ LET m == LoopRegexMatch(output)
     IN  /\ m.ok
         /\ Len(ExpandOnce(output, m)) <= MaxTextLen
         /\ output' = ExpandOnce(output, m)
         /\ hist' = [hist EXCEPT !.exp = <<[before |-> output, m |-> m]>>]
  /\ UNCHANGED <<fs, arg, seen, stack, pc, retval>>
  /\ UNCHANGED varVars
  /\ UNCHANGED runVars

\* line 503 when the new text is longer than the process can hold: the
\* assignment fails and the process dies
ExpandLoopsOverflow ==
  /\ pc = "expandLoops"
  /\ LET m == LoopRegexMatch(output)
     IN  /\ m.ok
         /\ Len(ExpandOnce(output, m)) > MaxTextLen
  /\ pc' = "outOfMemory"
  /\ UNCHANGED <<fs, arg, seen, stack, output, retval, hist>>
  /\ UNCHANGED varVars
  /\ UNCHANGED runVars

\* lines 489 and 506: no loop matches; expandLoops returns `output`, to
\* line 54 of resolveIncludes when that is its caller
ExpandLoopsReturn ==
  /\ pc = "expandLoops"
  /\ ~LoopRegexMatch(output).ok
  /\ IF stack = <<>>
       THEN /\ pc' = "done"
            /\ retval' = output
            /\ stack' = stack
       ELSE /\ pc' = "replace"
            /\ retval' = retval
            /\ stack' = [stack EXCEPT ![Len(stack)].content = output]
  /\ UNCHANGED <<fs, arg, seen, output, hist>>
  /\ UNCHANGED varVars
  /\ UNCHANGED runVars

(***************************************************************************)
(* resolveIncludes (lines 38-76) as steps.                                 *)
(***************************************************************************)
Top == stack[Len(stack)]

\* the entry of a call that does not expand the loops of the file it reads
ResolveIncludesEnter_NoLoops ==
  /\ pc = "resolveIncludes"
  /\ LET absPath == PathResolve(arg)
     IN  IF absPath \notin DOMAIN fs
           THEN /\ retval' = <<Blank, StubLine(0, PathRelative(absPath)), Blank>>
                /\ pc' = "return"
                /\ UNCHANGED <<seen, stack>>
         ELSE IF absPath \in seen
           THEN /\ retval' = EmptyText
                /\ pc' = "return"
                /\ UNCHANGED <<seen, stack>>
         ELSE /\ seen' = seen \cup {absPath}
              /\ stack' = Append(stack, [Frame(absPath) EXCEPT !.content = fs[absPath]])
              /\ pc' = "replace"
              /\ retval' = retval
  /\ UNCHANGED <<fs, arg, hist, output>>
  /\ UNCHANGED varVars
  /\ UNCHANGED runVars

\* lines 39-54: the entry of a call, up to the call of expandLoops
ResolveIncludesEnter ==
  /\ pc = "resolveIncludes"
  /\ LET absPath == PathResolve(arg)
     IN  IF absPath \notin DOMAIN fs
           THEN /\ retval' = <<Blank, StubLine(0, PathRelative(absPath)), Blank>>
                /\ pc' = "return"
                /\ UNCHANGED <<seen, stack, output>>
         ELSE IF absPath \in seen
           THEN /\ retval' = EmptyText
                /\ pc' = "return"
                /\ UNCHANGED <<seen, stack, output>>
         ELSE /\ seen' = seen \cup {absPath}
              /\ stack' = Append(stack, Frame(absPath))
              /\ output' = fs[absPath]
              /\ pc' = "expandLoops"
              /\ retval' = retval
  /\ UNCHANGED <<fs, arg, hist>>
  /\ UNCHANGED varVars
  /\ UNCHANGED runVars

\* the next match of includeRegex (line 56) at or after line i of d: the
\* include line p and, before it, the blank lines q..p-1 that ^(\s*) takes
NextInclude(d, i) ==
  LET ps == {x \in i .. Len(d) : d[x].k = "include"}
  IN  IF ps = {} THEN [ok |-> FALSE, q |-> 0, p |-> 0]
      ELSE
        LET p  == CHOOSE x \in ps : \A y \in ps : x <= y
            qs == {x \in i .. p : \A y \in x .. (p - 1) : IsBlank(d[y])}
        IN  [ok |-> TRUE, q |-> CHOOSE x \in qs : \A y \in qs : x <= y, p |-> p]

\* what String.replace copies between the last match and line q
Between(d, i, q) ==
  IF i = 1 THEN SubSeq(d, 1, q - 1) \o <<Blank>>
  ELSE <<Blank>> \o SubSeq(d, i, q - 1) \o <<Blank>>

\* what String.replace copies after the last match
Remaining(d, i) ==
  IF i = 1 THEN d
  ELSE IF i > Len(d) THEN EmptyText
  ELSE <<Blank>> \o SubSeq(d, i, Len(d))

\* indent + stub, line 66: indent is what (\s*) took
IndentedStub(d, n, rel) ==
  [x \in 1 .. (n.p - n.q) |-> Blank] \o <<StubLine(d[n.p].ind, rel)>>

\* lines 58-67: the replace callback at the next include line, up to the
\* recursive call of line 69 (which ResolveIncludesEnter then runs)
IncludeCallback ==
  /\ pc = "replace"
  /\ LET f == Top
         n == NextInclude(f.content, f.i)
         includeAbs == PathResolve(IncludePath(f.content[n.p]))
         copied == TextCat(f.out, Between(f.content, f.i, n.q))
     IN  /\ n.ok
         /\ IF includeAbs \notin DOMAIN fs
              THEN /\ stack' = [stack EXCEPT ![Len(stack)] =
                          [f EXCEPT !.i = n.p + 1,
                             !.out = TextCat(copied,
                                IndentedStub(f.content, n, PathRelative(includeAbs)))]]
                   /\ UNCHANGED <<arg, pc>>
              ELSE /\ stack' = [stack EXCEPT ![Len(stack)] =
                          [f EXCEPT !.i = n.p, !.out = copied]]
                   /\ arg' = includeAbs
                   /\ pc' = "resolveIncludes"
         /\ hist' = [hist EXCEPT !.refs =
                       Append(@, [from |-> f.absPath, to |-> includeAbs])]
  /\ UNCHANGED <<fs, seen, output, retval>>
  /\ UNCHANGED varVars
  /\ UNCHANGED runVars

\* lines 73-75: no include line is left; the call returns its content
ReplaceDone ==
  /\ pc = "replace"
  /\ LET f == Top
     IN  /\ ~NextInclude(f.content, f.i).ok
         /\ retval' = TextCat(f.out, Remaining(f.content, f.i))
         /\ stack' = SubSeq(stack, 1, Len(stack) - 1)
         /\ pc' = "return"
  /\ UNCHANGED <<fs, arg, seen, output, hist>>
  /\ UNCHANGED varVars
  /\ UNCHANGED runVars

\* a call returns: to the callback that made it (lines 69-72: `included`
\* replaces the include line), or to the caller of the root call
ResolveIncludesReturn ==
  /\ pc = "return"
  /\ IF stack = <<>>
       THEN /\ pc' = "done"
            /\ stack' = stack
       ELSE /\ pc' = "replace"
            /\ stack' = [stack EXCEPT ![Len(stack)] =
                   [Top EXCEPT !.i = @ + 1, !.out = TextCat(@, retval)]]
  /\ UNCHANGED <<fs, arg, seen, output, retval, hist>>
  /\ UNCHANGED varVars
  /\ UNCHANGED runVars

(***************************************************************************)
(* expandLoops alone, on every document of at most MaxLines lines.         *)
(***************************************************************************)
\* `for i < x` and `for i < -1`
BadLims == {Lim("nan", 0), Lim("neg", 1)}

\* the lines the documents are made of: loops over i at column 0 and over j
\* at column 1, so that the matched text occurs first where it matched
LoopLines ==
  {ForLine(0, "i", Lim("num", n)) : n \in 0 .. MaxBound}
    \cup {ForLine(0, "i", l) : l \in BadLims}
    \cup {ForLine(1, "j", Lim("num", MaxBound)), EndFor(0), EndFor(1)}
    \cup {Text(1, <<Lit("x"), Ph("i", ""), Ph("j", "")>>), Text(0, <<Lit("$$")>>)}
    \cup {AmpLine, Blank}

LoopDocs == UNION {[1 .. n -> LoopLines] : n \in 1 .. MaxLines}

NoFiles == [x \in {} |-> EmptyText]

InitLoops ==
  /\ output \in LoopDocs
  /\ hist = [NoHist EXCEPT !.html = output]
  /\ fs = NoFiles
  /\ arg = <<>>
  /\ seen = {}
  /\ stack = <<>>
  /\ pc = "expandLoops"
  /\ retval = EmptyText
  /\ NoVariables

NextLoops == ExpandLoopsStep \/ ExpandLoopsOverflow \/ ExpandLoopsReturn

SpecLoops == InitLoops /\ [][NextLoops]_vars /\ WF_vars(NextLoops)

(***************************************************************************)
(* Properties of expandLoops.                                              *)
(***************************************************************************)
\* the last expansion: the text before it and the match that was replaced
LastExp == hist.exp[1]

\* the k-th copy of a body: every ${v} replaced by the decimal text of k
C5_Copy(body, v, k) ==
  [x \in DOMAIN body |->
     [body[x] EXCEPT !.toks = [y \in DOMAIN body[x].toks |->
        IF body[x].toks[y] = Ph(v, "") THEN Lit(Dec(k)) ELSE body[x].toks[y]]]]

RECURSIVE C5_Copies(_, _, _, _)
C5_Copies(body, v, k, n) ==
  IF k >= n THEN EmptyText
  ELSE TextCat(C5_Copy(body, v, k), C5_Copies(body, v, k + 1, n))

\* C5: a loop block `for v < N ... endfor` is replaced by exactly N
\* consecutive copies of its body, the k-th copy (k = 0..N-1) being the body
\* with every ${v} replaced by the decimal text of k and all other body text
\* unchanged; for N = 0 the block is replaced by nothing.
C5_BlockBecomesNCopies ==
  hist.exp # <<>> =>
    LET d == LastExp.before
        m == LastExp.m
    IN  output = SubSeq(d, 1, m.q - 1)
                   \o C5_Copies(MatchBody(d, m), d[m.p].v, 0, d[m.p].lim.n)
                   \o SubSeq(d, m.e + m.t + 1, Len(d))

\* line x of the input opens a block whose bound is negative or no number
BadBlockAt(d, x) ==
  /\ d[x].k = "for"
  /\ d[x].lim \in BadLims
  /\ \E y \in (x + 1) .. Len(d) : d[y] = EndFor(d[x].ind)

\* C6: a loop block whose bound is negative or not a number is treated as
\* bound zero: its `for` line (with its body and its `endfor` line) is gone
\* from the text expandLoops returns.
C6_BadBoundVanishes ==
  pc = "done" =>
    \A x \in 1 .. Len(hist.html) :
      BadBlockAt(hist.html, x) =>
        \A y \in 1 .. Len(retval) : retval[y] # hist.html[x]

\* C7: expandLoops terminates on every input text, and on return the text
\* contains no loop block that the loop pattern matches.  (A run that does
\* not return grows its text for ever; it is cut when the text outgrows
\* MaxTextLen lines, which no returning run of these inputs reaches.)
C7_ExpandLoopsTerminates ==
  /\ pc # "outOfMemory"
  /\ pc = "done" => ~LoopRegexMatch(retval).ok

\* only a text with a `$&` line outgrows MaxTextLen lines
AmpFreeFits ==
  (\A x \in 1 .. Len(hist.html) : hist.html[x] # AmpLine) => pc # "outOfMemory"

(***************************************************************************)
(* resolveIncludes(index.tmpl.html) over a small project: the root         *)
(* template, two partials that may include each other and the root, and    *)
(* the cards a loop of the root pulls in by index.                         *)
(***************************************************************************)
FileA == <<Lit("a.html")>>
FileB == <<Lit("b.html")>>
NoSuchFile == <<Lit("nofile.html")>>
CardFile(tok) == <<Lit("card-"), tok, Lit(".html")>>

\* for index < n / include card-${index}.html / endfor  (README 4.4)
LoopCards(n) ==
  <<ForLine(0, "index", Lim("num", n)),
    Inc(1, CardFile(Ph("index", ""))),
    EndFor(0)>>

\* for i < n / include a.html / endfor
LoopSame(n) ==
  <<ForLine(0, "i", Lim("num", n)), Inc(1, FileA), EndFor(0)>>

\* for i < 1 / $& / endfor
LoopAmp == <<ForLine(0, "i", Lim("num", 1)), AmpLine, EndFor(0)>>

RootItems ==
  {<<Inc(0, FileA)>>, <<Inc(1, <<DotSlash>> \o FileA)>>, <<Inc(0, FileB)>>,
   <<Inc(1, <<DotSlash>> \o NoSuchFile)>>, <<Text(0, <<Lit("root")>>)>>,
   LoopSame(MaxBound)}
    \cup {LoopCards(n) : n \in 0 .. MaxBound}

\* no file at this path
Absent == <<>>

RootTexts ==
  {Absent, LoopAmp} \cup RootItems \cup {x \o y : x \in RootItems, y \in RootItems}

ATexts ==
  {Absent,
   <<Text(0, <<Lit("A")>>)>>,
   <<Text(0, <<Lit("A")>>), Inc(0, FileB)>>,
   <<Inc(0, <<Lit("index.tmpl.html")>>)>>,
   <<Text(0, <<Lit("A")>>), Inc(0, <<DotSlash>> \o FileA)>>,
   <<Inc(0, FileB), Inc(0, FileB)>>}

BTexts ==
  {Absent,
   <<Text(0, <<Lit("B")>>)>>,
   <<Inc(0, FileA), Text(0, <<Lit("B")>>)>>,
   <<Inc(0, NoSuchFile), Inc(0, FileA)>>}

CardText(k) == <<Text(0, <<Lit("card "), Lit(Dec(k))>>)>>

Card0Texts == {Absent, CardText(0)}
Card1Texts == {CardText(1), CardText(1) \o <<Inc(0, FileA)>>}

\* the files of a project: the paths that have a text
Project(root, a, b, c0, c1) ==
  LET all == (IndexTpl :> root) @@ (PathResolve(FileA) :> a)
               @@ (PathResolve(FileB) :> b)
               @@ (PathResolve(CardFile(Lit(Dec(0)))) :> c0)
               @@ (PathResolve(CardFile(Lit(Dec(1)))) :> c1)
  IN  [f \in {x \in DOMAIN all : all[x] # Absent} |-> all[f]]

\* buildIndexFile line 523: resolveIncludes(indexTplPath) with a fresh `seen`
Init ==
  /\ \E root \in RootTexts, a \in ATexts, b \in BTexts,
        c0 \in Card0Texts, c1 \in Card1Texts :
       fs = Project(root, a, b, c0, c1)
  /\ arg = IndexTpl
  /\ seen = {}
  /\ stack = <<>>
  /\ output = EmptyText
  /\ pc = "resolveIncludes"
  /\ retval = EmptyText
  /\ hist = NoHist
  /\ NoVariables

Next ==
  \/ ResolveIncludesEnter
  \/ ExpandLoopsStep
  \/ ExpandLoopsOverflow
  \/ ExpandLoopsReturn
  \/ IncludeCallback
  \/ ReplaceDone
  \/ ResolveIncludesReturn

\* the program is one thread that runs on until it returns
Spec == Init /\ [][Next]_vars /\ WF_vars(Next)

(***************************************************************************)
(* Properties of resolveIncludes.                                          *)
(***************************************************************************)
\* the files of the calls that are active: the current root-to-leaf chain
Chain == {stack[x].absPath : x \in 1 .. Len(stack)}

\* a call is being entered for a file that is on the current chain
ClosesCycle == pc = "resolveIncludes" /\ PathResolve(arg) \in Chain

\* C1: for every set of template files and every include graph over them,
\* resolveIncludes(root) terminates without throwing (it does not run until
\* its text outgrows memory), and the reference that closes a cycle
\* contributes empty text.
C1_ResolveIncludesTerminates ==
  /\ [](pc # "outOfMemory")
  /\ [][ClosesCycle => (pc' = "return" /\ retval' = EmptyText)]_vars

\* the part of C1 that is about cycles: the call that closes a cycle returns
\* empty text at once, and no file is ever active twice
CycleYieldsEmpty ==
  /\ [][ClosesCycle => (pc' = "return" /\ retval' = EmptyText)]_vars
  /\ [](\A x, y \in 1 .. Len(stack) : stack[x].absPath = stack[y].absPath => x = y)

\* C2: a reference to a file yields empty text only when that file is on the
\* current root-to-leaf chain: a call for an existing file that is not on the
\* chain reads the file and splices it in, also when the file was spliced in
\* at an earlier place.
C2_EmptyOnlyOnChain ==
  [][(pc = "resolveIncludes" /\ PathResolve(arg) \in DOMAIN fs /\ ~ClosesCycle)
       => (pc' = "expandLoops" /\ output' = fs[PathResolve(arg)])]_vars

\* the callback is about to run at an include line whose file does not exist
AtMissingInclude ==
  /\ pc = "replace"
  /\ NextInclude(Top.content, Top.i).ok
  /\ PathResolve(IncludePath(Top.content[NextInclude(Top.content, Top.i).p]))
       \notin DOMAIN fs

\* C3: an include directive that names a missing file is replaced by an
\* error stub that holds the root-relative path of the file; nothing is
\* thrown, and every other directive is resolved as if the directive were
\* not there: the step changes nothing but the text built so far, to which
\* it adds the lines before the directive and the stub, and the scan goes on
\* at the line after the directive with the same `seen` and the same callers.
C3_MissingIncludeYieldsStub ==
  [][AtMissingInclude =>
       LET f   == Top
           n   == NextInclude(f.content, f.i)
           l   == f.content[n.p]
           rel == Normalize(IncludePath(l))
           g   == stack'[Len(stack)]
       IN  /\ pc' = "replace"
           /\ seen' = seen
           /\ Len(stack') = Len(stack)
           /\ SubSeq(stack', 1, Len(stack) - 1) = SubSeq(stack, 1, Len(stack) - 1)
           /\ g.absPath = f.absPath /\ g.content = f.content
           /\ g.i = n.p + 1
           /\ g.out = TextCat(TextCat(f.out, Between(f.content, f.i, n.q)),
                        [x \in 1 .. (n.p - n.q) |-> Blank]
                          \o <<Text(l.ind,
                                 <<Lit("<div style=\"border:1px red dotted\">INCLUDE ERROR: ")>>
                                   \o rel \o <<Lit(" not found</div>")>>)>>)
  ]_vars

\* a stub for ./nofile.html, named nofile.html, is in the text of the root
C3_Witness ==
  /\ pc = "done"
  /\ \E x \in 1 .. Len(retval) : retval[x] = StubLine(1, NoSuchFile)

\* the targets of the include directives the call for the root resolved
RECURSIVE RefsFrom(_, _)
RefsFrom(refs, abs) ==
  IF Len(refs) = 0 THEN <<>>
  ELSE (IF Head(refs).from = abs THEN <<Head(refs).to>> ELSE <<>>)
       \o RefsFrom(Tail(refs), abs)

\* what a document refers to when its loops are expanded first: a block
\* `for v < N / include P / endfor` refers to P with ${v} = 0, ..., N-1
RECURSIVE C4_Refs(_)
C4_Refs(d) ==
  IF Len(d) = 0 THEN <<>>
  ELSE IF /\ Len(d) >= 3
          /\ d[1].k = "for" /\ d[1].lim.kind = "num"
          /\ d[2].k = "include"
          /\ d[3] = EndFor(d[1].ind)
    THEN [k \in 1 .. d[1].lim.n |->
            <<RootDir>> \o Normalize(
              [y \in DOMAIN d[2].toks |->
                 IF d[2].toks[y] = Ph(d[1].v, "") THEN Lit(Dec(k - 1))
                 ELSE d[2].toks[y]])]
         \o C4_Refs(SubSeq(d, 4, Len(d)))
  ELSE IF d[1].k = "include"
    THEN <<<<RootDir>> \o Normalize(d[1].toks)>> \o C4_Refs(Tail(d))
  ELSE C4_Refs(Tail(d))

\* the lines of a text that come from a card: its text or its stub
IsCardLine(l) ==
  \E k \in 0 .. MaxBound :
    l = CardText(k)[1] \/ l = StubLine(1, CardFile(Lit(Dec(k))))

CardLine(k) ==
  IF PathResolve(CardFile(Lit(Dec(k)))) \in DOMAIN fs
    THEN CardText(k)[1] ELSE StubLine(1, CardFile(Lit(Dec(k))))

MaxTokens == 3
\* the most characters of a dataset value
MaxValLen == 3

\* .toLowerCase(), line 106
ToLowerCase(m) ==
  CASE m = "Color" -> "color"
    [] m = "ATTR"  -> "attr"
    [] OTHER       -> m

\* the switch of lines 111-138: the type a modifier declares
ModifierType(modifier) ==
  CASE modifier = "number"  -> "number"
    [] modifier = "boolean" -> "boolean"
    [] modifier = "color"   -> "color"
    [] modifier = "image"   -> "img"
    [] OTHER                -> "string"

\* line 113
ModifierAllowHTML(modifier) == modifier = "html"

\* the cases of the switch; any other modifier takes the default branch
KnownModifiers == {"html", "number", "boolean", "color", "image", "attr", ""}

\* the names every object inherits from Object.prototype as it is when the
\* process starts: varMeta[name] is truthy for them though varMeta was
\* created empty (line 102)
ObjectProtoNames == {"constructor", "toString", "valueOf", "hasOwnProperty"}

\* varMeta["__proto__"] is Object.prototype itself
ProtoName == "__proto__"

\* the index of the own entry of varName in varMeta, or 0
OwnIndex(meta, varName) ==
  IF \E x \in 1 .. Len(meta) : meta[x].name = varName
    THEN CHOOSE x \in 1 .. Len(meta) : meta[x].name = varName
    ELSE 0

\* registerVar that gives an existing descriptor the type declared last
RegisterVar_LastTypeWins(meta, dg, proto, varName, modifierRaw) ==
  LET type == ModifierType(ToLowerCase(modifierRaw))
      x    == OwnIndex(meta, varName)
  IN  IF x = 0
        THEN [meta |-> Append(meta, [name |-> varName, type |-> type,
                                     allowHTML |-> FALSE]),
              diag |-> dg, proto |-> proto, threw |-> FALSE]
        ELSE [meta |-> IF type # "string" THEN [meta EXCEPT ![x].type = type]
                       ELSE meta,
              diag |-> dg, proto |-> proto, threw |-> FALSE]

\* registerVar that reads the html modifier only where a name is new
RegisterVar_HtmlOnlyWhenNew(meta, dg, proto, varName, modifierRaw) ==
  LET modifier == ToLowerCase(modifierRaw)
      x        == OwnIndex(meta, varName)
  IN  IF x = 0
        THEN [meta |-> Append(meta, [name |-> varName,
                                     type |-> ModifierType(modifier),
                                     allowHTML |-> ModifierAllowHTML(modifier)]),
              diag |-> dg, proto |-> proto, threw |-> FALSE]
        ELSE [meta |-> meta, diag |-> dg, proto |-> proto, threw |-> FALSE]

\* registerVar, lines 105-158: the new varMeta, the warnings, the
\* properties added to Object.prototype and whether line 153 threw.
\* `existing` (line 140) is the own descriptor, or what the name inherits:
\* a function of Object.prototype, Object.prototype itself (__proto__), or
\* the value true of a property that line 153 added to Object.prototype.
\* Line 153 on Object.prototype adds the property allowHTML to every
\* object of the process; on the value true it throws (a module is strict)
RegisterVar(meta, dg, proto, varName, modifierRaw) ==
  LET modifier  == ToLowerCase(modifierRaw)
      type      == ModifierType(modifier)
      allowHTML == ModifierAllowHTML(modifier)
      dg1 == IF modifier \in KnownModifiers THEN dg
             ELSE Append(dg, [kind |-> "unknown", name |-> varName])
      x   == OwnIndex(meta, varName)
      inherited == varName \in ObjectProtoNames \cup {ProtoName} \cup proto
  IN  IF x = 0 /\ ~inherited
        THEN [meta |-> Append(meta, [name |-> varName, type |-> type,
                                     allowHTML |-> allowHTML]),
              diag |-> dg1, proto |-> proto, threw |-> FALSE]
        ELSE [meta |-> IF x # 0 /\ allowHTML
                         THEN [meta EXCEPT ![x].allowHTML = TRUE] ELSE meta,
              diag |-> IF type # "string" /\ (x = 0 \/ meta[x].type # type)
                         THEN Append(dg1, [kind |-> "conflict", name |-> varName])
                         ELSE dg1,
              proto |-> IF x = 0 /\ allowHTML /\ varName = ProtoName
                          THEN proto \cup {"allowHTML"} ELSE proto,
              threw |-> x = 0 /\ allowHTML /\ varName \in proto]

\* a dataset value: a scalar, as the characters of String(val), or a nested
\* object {default, true_value, false_value}; a default is its characters
\* String(default) and its truthiness !!default
Scalar(chars) ==
  [kind |-> "scalar", chars |-> chars, hasDefault |-> FALSE,
   default |-> [truthy |-> FALSE, chars |-> <<>>],
   hasTrue |-> FALSE, true_value |-> <<>>, hasFalse |-> FALSE, false_value |-> <<>>]

Object(hasDefault, default, hasTrue, tv, hasFalse, fv) ==
  [kind |-> "object", chars |-> <<>>, hasDefault |-> hasDefault, default |-> default,
   hasTrue |-> hasTrue, true_value |-> tv, hasFalse |-> hasFalse, false_value |-> fv]

\* a boolean default and String(b) of it
BoolDefault(b) ==
  [truthy |-> b,
   chars  |-> IF b THEN <<"t", "r", "u", "e">> ELSE <<"f", "a", "l", "s", "e">>]

\* a string default: truthy unless empty
StringDefault(chars) == [truthy |-> chars # <<>>, chars |-> chars]

\* Object.prototype.hasOwnProperty.call(contentMap, varName), line 170; the
\* dataset is the sequence of its entries [name, val]
HasOwnProperty(map, varName) == \E x \in 1 .. Len(map) : map[x].name = varName

\* contentMap[varName], line 171
Get(map, varName) == map[CHOOSE x \in 1 .. Len(map) : map[x].name = varName].val

\* rawVal that gives a nested object its default whatever the modifier is
RawVal_NoBoolean(val, modifier) ==
  IF val.kind = "object"
    THEN IF val.hasDefault THEN val.default.chars ELSE <<"[object Object]">>
    ELSE val.chars

\* rawVal, lines 172-196
RawVal(val, modifier) ==
  IF val.kind = "object"
    THEN IF modifier = "boolean"
           THEN IF val.hasDefault /\ val.default.truthy
                  THEN (IF val.hasTrue THEN val.true_value
                        ELSE <<"t", "r", "u", "e">>)
                  ELSE (IF val.hasFalse THEN val.false_value
                        ELSE <<"f", "a", "l", "s", "e">>)
         ELSE IF val.hasDefault THEN val.default.chars
         ELSE <<"[object Object]">>
    ELSE val.chars

\* str.replace(/c/g, to): every character c becomes the characters `to`
RECURSIVE ReplaceAll(_, _, _)
ReplaceAll(str, c, to) ==
  IF Len(str) = 0 THEN <<>>
  ELSE (IF Head(str) = c THEN to ELSE <<Head(str)>>) \o ReplaceAll(Tail(str), c, to)

\* escapeHtml that leaves the double quote as it is
EscapeHtml_NoQuot(str) ==
  ReplaceAll(ReplaceAll(ReplaceAll(str, "&", <<"&", "a", "m", "p", ";">>),
      "<", <<"&", "l", "t", ";">>), ">", <<"&", "g", "t", ";">>)

\* escapeHtml, lines 89-99
EscapeHtml(str) ==
  IF str = <<>> THEN <<>>
  ELSE ReplaceAll(ReplaceAll(ReplaceAll(ReplaceAll(str,
         "&",  <<"&", "a", "m", "p", ";">>),
         "\"", <<"&", "q", "u", "o", "t", ";">>),
         "<",  <<"&", "l", "t", ";">>),
         ">",  <<"&", "g", "t", ";">>)

\* the callback that substitutes the dataset value whatever the mode is
CallbackReturn_IgnoresMode(varName, modifier, map, md) ==
  IF HasOwnProperty(map, varName)
    THEN IF modifier = "attr" THEN EscapeHtml(RawVal(Get(map, varName), modifier))
         ELSE RawVal(Get(map, varName), modifier)
    ELSE <<"[", varName, "]">>

\* what the replace callback returns, lines 163-208
CallbackReturn(varName, modifier, map, md) ==
  IF md = "build" THEN <<"${", varName, "}">>
  ELSE IF HasOwnProperty(map, varName)
    THEN IF modifier = "attr" THEN EscapeHtml(RawVal(Get(map, varName), modifier))
         ELSE RawVal(Get(map, varName), modifier)
  ELSE <<"[", varName, "]">>

\* html.replace copies the text between two matches of varRegex
CopyText ==
  /\ pc = "applyVariables"
  /\ Len(processed) < Len(html)
  /\ html[Len(processed) + 1].t = "lit"
  /\ processed' = Append(processed, <<html[Len(processed) + 1].s>>)
  /\ UNCHANGED <<fs, arg, seen, stack, output, pc, retval, hist>>
  /\ UNCHANGED <<html, contentMap, mode, varMeta, diag, metaTags>>
  /\ UNCHANGED runVars

\* lines 160-209: the replace callback at the next match of varRegex; an
\* exception registerVar throws ends the pass
VarCallback ==
  /\ pc = "applyVariables"
  /\ Len(processed) < Len(html)
  /\ LET tok == html[Len(processed) + 1]
         reg == RegisterVar(varMeta, diag, objectProto, tok.s, tok.m)
     IN  /\ tok.t = "ph"
         /\ varMeta' = reg.meta
         /\ diag' = reg.diag
         /\ objectProto' = reg.proto
         /\ IF reg.threw
              THEN pc' = "TypeError" /\ processed' = processed
              ELSE /\ pc' = pc
                   /\ processed' = Append(processed,
                        CallbackReturn(tok.s, ToLowerCase(tok.m), contentMap, mode))
  /\ UNCHANGED <<fs, arg, seen, stack, output, retval, hist>>
  /\ UNCHANGED <<html, contentMap, mode, metaTags>>
  /\ UNCHANGED <<src, dist, todo, step, events, first, writes>>

\* lines 211-214: replace is through; applyVariables returns
ApplyVariablesReturn ==
  /\ pc = "applyVariables"
  /\ Len(processed) = Len(html)
  /\ pc' = "done"
  /\ UNCHANGED <<fs, arg, seen, stack, output, retval, hist>>
  /\ UNCHANGED varVars
  /\ UNCHANGED runVars

(***************************************************************************)
(* generateMktoMetaTags (lines 228-326), called by buildMarketoFile with    *)
(* the descriptors of the build-mode pass (lines 562-570).                  *)
(***************************************************************************)
\* the value of a name that is a canonical array index ("2", "10"; not "01"),
\* or -1: Object.entries lists such keys first, in ascending numeric order
ArrayIndex(name) ==
  CASE name = "0"  -> 0
    [] name = "1"  -> 1
    [] name = "2"  -> 2
    [] name = "10" -> 10
    [] OTHER       -> -1

\* the own entries whose indices are in S, in ascending order of the key
RECURSIVE Ascending(_, _)
Ascending(meta, S) ==
  IF S = {} THEN <<>>
  ELSE LET m == CHOOSE x \in S :
                  \A z \in S : ArrayIndex(meta[x].name) <= ArrayIndex(meta[z].name)
       IN  <<meta[m]>> \o Ascending(meta, S \ {m})

IsStringKey(e) == ArrayIndex(e.name) < 0

\* Object.entries(varsMeta), line 235: integer keys ascending, then the
\* other keys in the order of insertion
ObjectEntries(meta) ==
  Ascending(meta, {x \in 1 .. Len(meta) : ArrayIndex(meta[x].name) >= 0})
    \o SelectSeq(meta, IsStringKey)

\* the switch of lines 240-256
MktoClass(type) ==
  CASE type = "number"  -> "mktoNumber"
    [] type = "boolean" -> "mktoBoolean"
    [] type = "color"   -> "mktoColor"
    [] type = "img"     -> "mktoImg"
    [] OTHER            -> "mktoString"

\* mktoNameFromId, lines 217-226, on the names of one word: the first
\* letter in upper case
MktoNameFromId(id) ==
  CASE id = "x" -> "X"
    [] id = "y" -> "Y"
    [] OTHER    -> id

\* an attribute that is left out
NoAttr == [has |-> FALSE, chars |-> <<>>]

Attr(chars) == [has |-> TRUE, chars |-> chars]

\* rawDefault, lines 258-275 (the objects here hold no `value` key);
\* contentMap[varName] of line 258 reads inherited properties too: the
\* value true of one that was added to Object.prototype
RawDefault(map, proto, varName) ==
  IF ~HasOwnProperty(map, varName)
    THEN (IF varName \in proto THEN <<"t", "r", "u", "e">> ELSE <<>>)
  ELSE LET rawCfg == Get(map, varName)
       IN  IF rawCfg.kind = "object"
             THEN (IF rawCfg.hasDefault THEN rawCfg.default.chars ELSE <<>>)
             ELSE rawCfg.chars

\* one pass of the loop body, lines 236-322: the attributes of the line
MetaTag(e, map, proto) ==
  LET cls        == MktoClass(e.type)
      isObject   == HasOwnProperty(map, e.name) /\ Get(map, e.name).kind = "object"
      cfgObject  == Get(map, e.name)
      defaultAttr == EscapeHtml(RawDefault(map, proto, e.name))
  IN  [cls         |-> cls,
       id          |-> e.name,
       mktoName    |-> MktoNameFromId(e.name),
       allowHTML   |-> e.allowHTML /\ cls = "mktoString",
       false_value |-> IF cls = "mktoBoolean" /\ isObject /\ cfgObject.hasFalse
                         THEN Attr(EscapeHtml(cfgObject.false_value)) ELSE NoAttr,
       true_value  |-> IF cls = "mktoBoolean" /\ isObject /\ cfgObject.hasTrue
                         THEN Attr(EscapeHtml(cfgObject.true_value)) ELSE NoAttr,
       default     |-> IF defaultAttr # <<>> THEN Attr(defaultAttr) ELSE NoAttr]

\* buildMarketoFile line 570: generateMktoMetaTags(usedVars, contentMap)
GenerateMktoMetaTags ==
  /\ pc = "done"
  /\ mode = "build"
  /\ metaTags' = [x \in 1 .. Len(ObjectEntries(varMeta)) |->
                    MetaTag(ObjectEntries(varMeta)[x], contentMap, objectProto)]
  /\ pc' = "generated"
  /\ UNCHANGED <<fs, arg, seen, stack, output, retval, hist>>
  /\ UNCHANGED <<html, contentMap, mode, processed, varMeta, diag>>
  /\ UNCHANGED runVars

(***************************************************************************)
(* The texts and datasets applyVariables is run on.                        *)
(***************************************************************************)
\* the modifiers written after x: every case of the switch, one in upper
\* case and one the switch does not know
XModifiers == {"", "html", "attr", "number", "boolean", "image", "Color", "bogus"}

VarTokens ==
  {Ph("x", m) : m \in XModifiers}
    \cup {Ph("y", ""), Ph("y", "number"), Ph("constructor", ""), Lit("a")}

VarDocs == UNION {[1 .. n -> VarTokens] : n \in 1 .. MaxTokens}

\* the characters of the values: the four escapeHtml replaces and two that
\* make up its entities
ValChars == {"&", "\"", "<", ">", "a", ";"}

Values == UNION {[1 .. n -> ValChars] : n \in 0 .. MaxValLen}

Entry(name, val) == [name |-> name, val |-> val]

\* datasets: none of the names; scalars; the boolean configurations of the
\* README; objects with a string default and with no default
Datasets ==
  { <<>>,
    <<Entry("x", Scalar(<<"<", "&">>)), Entry("y", Scalar(<<"7">>))>>,
    <<Entry("x", Object(TRUE, BoolDefault(TRUE), TRUE, <<"b", "\"">>, TRUE, <<"a">>))>>,
    <<Entry("x", Object(TRUE, BoolDefault(FALSE), FALSE, <<>>, FALSE, <<>>))>>,
    <<Entry("x", Object(TRUE, StringDefault(<<"<", ">">>), FALSE, <<>>, TRUE, <<"&">>))>>,
    <<Entry("x", Object(FALSE, BoolDefault(FALSE), FALSE, <<>>, FALSE, <<>>))>> }

\* the texts whose names are all digits, a canonical index or not, beside x
OrderTokens == {Ph("2", ""), Ph("10", "number"), Ph("01", ""), Ph("x", "")}

OrderDocs == UNION {[1 .. n -> OrderTokens] : n \in 1 .. MaxTokens}

\* two datasets with the same entries in the two orders of their keys
OrderDatasets ==
  { <<Entry("x", Scalar(<<"a">>)), Entry("2", Scalar(<<"<">>))>>,
    <<Entry("2", Scalar(<<"<">>)), Entry("x", Scalar(<<"a">>))>> }

\* the texts of x with the type modifiers and with none
TypeTokens == {Ph("x", m) : m \in {"", "number", "boolean", "color", "image"}}

TypeDocs == UNION {[1 .. n -> TypeTokens] : n \in 1 .. MaxTokens}

\* the number 0 as a default: falsy, String(0) = "0"
ZeroDefault == [truthy |-> FALSE, chars |-> <<"0">>]

\* the nested objects: a default that is true, false, 0, "" or a string, or
\* none, with and without true_value and false_value
BooleanConfigs ==
  {Object(TRUE, d, ht, <<"b">>, hf, <<"a">>) :
     d \in {BoolDefault(TRUE), BoolDefault(FALSE), ZeroDefault,
            StringDefault(<<>>), StringDefault(<<"<">>)},
     ht \in BOOLEAN, hf \in BOOLEAN}
   \cup {Object(FALSE, BoolDefault(FALSE), ht, <<"b">>, hf, <<"a">>) :
           ht \in BOOLEAN, hf \in BOOLEAN}

\* the texts with the name __proto__ and with the name of the property
\* line 153 assigns
ProtoTokens == {Ph(ProtoName, "html"), Ph("allowHTML", ""), Ph("allowHTML", "html")}

ProtoDocs == UNION {[1 .. n -> ProtoTokens] : n \in 1 .. MaxTokens}

\* the texts that hold ${x|attr}, run on every value
AttrDocs == {<<Ph("x", "attr")>>, <<Lit("a"), Ph("x", "ATTR")>>}

InitVars ==
  /\ fs = NoFiles /\ arg = <<>> /\ seen = {} /\ stack = <<>>
  /\ output = EmptyText /\ retval = EmptyText /\ hist = NoHist
  /\ pc = "applyVariables"
  /\ processed = <<>> /\ varMeta = <<>> /\ diag = <<>> /\ metaTags = <<>>
  /\ NoRun
  /\ \/ /\ html \in VarDocs
        /\ contentMap \in Datasets
        /\ mode \in {"dev", "build"}
     \/ /\ html \in AttrDocs
        /\ \E v \in Values : contentMap = <<Entry("x", Scalar(v))>>
        /\ mode = "dev"
     \/ /\ html \in TypeDocs
        /\ \E o \in BooleanConfigs : contentMap = <<Entry("x", o)>>
        /\ mode = "dev"
     \/ /\ html \in ProtoDocs
        /\ contentMap = <<>>
        /\ mode \in {"dev", "build"}
     \/ /\ html \in OrderDocs
        /\ contentMap \in OrderDatasets
        /\ mode = "build"

NextVars == CopyText \/ VarCallback \/ ApplyVariablesReturn \/ GenerateMktoMetaTags

SpecVars == InitVars /\ [][NextVars]_vars /\ WF_vars(NextVars)

(***************************************************************************)
(* run (lines 579-627): the three builds, and in watch mode the builds of   *)
(* the watcher callback.  The builds call resolveIncludes, applyVariables   *)
(* and generateMktoMetaTags, which are the actions above.  The scss is a    *)
(* version number and the compiled css is that number; the script bundles  *)
(* are left out; index.tmpl.html is taken to hold the css-index marker.     *)
(***************************************************************************)
\* the most watch events handled
MaxEvents == 2

\* the tokens of a text line by line (white space left out); a line that is
\* no directive any more is the text it is
RECURSIVE Tokens(_)
Tokens(text) ==
  IF text = <<>> THEN <<>>
  ELSE (CASE Head(text).k = "text"  -> Head(text).toks
          [] Head(text).k = "blank" -> <<>>
          [] OTHER                  -> <<Lit(Head(text).k)>>) \o Tokens(Tail(text))

\* compileCss, lines 385-403
CompileCss(scss) == scss

\* buildStyleSheet, lines 509-517
BuildStyleSheet ==
  /\ pc = "idle"
  /\ todo # <<>> /\ Head(todo) = "buildStyleSheet"
  /\ dist' = [dist EXCEPT !.styles = [written |-> TRUE, css |-> CompileCss(src.scss)]]
  /\ writes' = [writes EXCEPT !.files = @ \cup {"styles"}]
  /\ todo' = Tail(todo)
  /\ UNCHANGED <<fs, arg, seen, stack, output, pc, retval, hist, varVars>>
  /\ UNCHANGED <<objectProto, src, step, events, first>>

\* buildIndexFile lines 520-523, buildMarketoFile lines 545-548:
\* resolveIncludes(indexTplPath), `seen` being a new Set (line 38)
BuildResolveIncludes ==
  /\ pc = "idle"
  /\ todo # <<>> /\ Head(todo) \in {"buildIndexFile", "buildMarketoFile"}
  /\ arg' = IndexTpl
  /\ seen' = {}
  /\ stack' = <<>>
  /\ hist' = NoHist
  /\ pc' = "resolveIncludes"
  /\ step' = "resolve"
  /\ UNCHANGED <<fs, output, retval, varVars>>
  /\ UNCHANGED <<objectProto, src, dist, todo, events, first, writes>>

\* buildIndexFile lines 525-536, buildMarketoFile lines 550-566:
\* loadContentYaml and the call of applyVariables, varMeta being a new
\* object (line 102)
BuildApplyVariables ==
  /\ pc = "done" /\ step = "resolve"
  /\ html' = Tokens(retval)
  /\ contentMap' = src.yaml
  /\ mode' = IF Head(todo) = "buildIndexFile" THEN "dev" ELSE "build"
  /\ processed' = <<>>
  /\ varMeta' = <<>>
  /\ diag' = <<>>
  /\ metaTags' = <<>>
  /\ pc' = "applyVariables"
  /\ step' = "vars"
  /\ UNCHANGED <<fs, arg, seen, stack, output, retval, hist>>
  /\ UNCHANGED <<objectProto, src, dist, todo, events, first, writes>>

\* buildIndexFile lines 538-541: dist/index.html, with the link to styles.css
WriteIndexFile ==
  /\ pc = "done" /\ step = "vars" /\ Head(todo) = "buildIndexFile"
  /\ dist' = [dist EXCEPT !.index = [written |-> TRUE, html |-> processed]]
  /\ writes' = [writes EXCEPT !.files = @ \cup {"index"}]
  /\ todo' = Tail(todo)
  /\ pc' = "idle"
  /\ step' = "none"
  /\ UNCHANGED <<fs, arg, seen, stack, output, retval, hist, varVars>>
  /\ UNCHANGED <<objectProto, src, events, first>>

\* buildMarketoFile line 570, within a build
BuildGenerateMktoMetaTags ==
  /\ step = "vars" /\ Head(todo) = "buildMarketoFile"
  /\ GenerateMktoMetaTags

\* buildMarketoFile lines 571-576: final/index.marketo.html, with the css
\* inline and the meta block
WriteMarketoFile ==
  /\ pc = "generated" /\ step = "vars" /\ Head(todo) = "buildMarketoFile"
  /\ dist' = [dist EXCEPT !.marketo =
                [written |-> TRUE, html |-> processed,
                 css |-> CompileCss(src.scss), meta |-> metaTags]]
  /\ writes' = [writes EXCEPT !.files = @ \cup {"marketo"}]
  /\ todo' = Tail(todo)
  /\ pc' = "idle"
  /\ step' = "none"
  /\ UNCHANGED <<fs, arg, seen, stack, output, retval, hist, varVars>>
  /\ UNCHANGED <<objectProto, src, events, first>>

\* what the first build of the process was given and what it made
Snapshot ==
  [set |-> TRUE, fs |-> fs, scss |-> src.scss, yaml |-> src.yaml,
   dist |-> dist, resolved |-> retval, usedVars |-> varMeta]

\* the builds of run() or of the callback are through: the one-off run
\* ends (line 626), the watch run waits for events (lines 589-603, 620)
RunReturn ==
  /\ pc = "idle" /\ todo = <<>>
  /\ pc' = IF src.argv = "watch" THEN "watching" ELSE "exit"
  /\ first' = IF first.set THEN first ELSE Snapshot
  /\ UNCHANGED <<fs, arg, seen, stack, output, retval, hist, varVars>>
  /\ UNCHANGED <<objectProto, src, dist, todo, step, events, writes>>

\* the templates of the projects that are built
RunRoots ==
  { <<Text(0, <<Ph(ProtoName, "html")>>)>>,
    <<Text(0, <<Lit("a"), Ph("allowHTML", "")>>)>>,
    <<Inc(0, FileA), Text(0, <<Ph("x", "number")>>)>>,
    LoopSame(MaxBound),
    LoopAmp }

RunProjects ==
  {Project(root, <<Text(0, <<Lit("A"), Ph("x", "")>>)>>, Absent, Absent, Absent) :
     root \in RunRoots}

RunDatasets == {<<>>, <<Entry("x", Scalar(<<"7">>))>>}

ScssVersions == {1, 2}

\* the watcher callback, lines 605-620, with the change that raised the
\* event: an .scss file, a template or content.yaml (a new text or the
\* same one)
OnAll ==
  /\ pc = "watching"
  /\ events < MaxEvents
  /\ events' = events + 1
  /\ \/ /\ \E v \in ScssVersions : src' = [src EXCEPT !.scss = v]
        /\ fs' = fs
        /\ writes' = [event |-> ".scss", files |-> {}]
        /\ todo' = <<"buildStyleSheet", "buildMarketoFile">>
     \/ /\ fs' \in RunProjects
        /\ src' = src
        /\ writes' = [event |-> ".html", files |-> {}]
        /\ todo' = <<"buildIndexFile", "buildMarketoFile">>
     \/ /\ \E d \in RunDatasets : src' = [src EXCEPT !.yaml = d]
        /\ fs' = fs
        /\ writes' = [event |-> ".yaml", files |-> {}]
        /\ todo' = <<"buildIndexFile", "buildMarketoFile">>
  /\ pc' = "idle"
  /\ UNCHANGED <<arg, seen, stack, output, retval, hist, varVars>>
  /\ UNCHANGED <<objectProto, dist, step, first>>

\* run(), lines 580-587 and 623-625: the three builds of a new process
InitRun ==
  /\ fs \in RunProjects
  /\ arg = <<>> /\ seen = {} /\ stack = <<>>
  /\ output = EmptyText /\ retval = EmptyText /\ hist = NoHist
  /\ pc = "idle"
  /\ html = <<>> /\ contentMap = <<>> /\ mode = "dev"
  /\ processed = <<>> /\ varMeta = <<>> /\ diag = <<>> /\ metaTags = <<>>
  /\ objectProto = {}
  /\ \E a \in {"once", "watch"}, d \in RunDatasets :
       src = [argv |-> a, scss |-> 1, yaml |-> d]
  /\ dist = NoDist
  /\ todo = <<"buildStyleSheet", "buildIndexFile", "buildMarketoFile">>
  /\ step = "none"
  /\ events = 0
  /\ first = NoFirst
  /\ writes = [event |-> "none", files |-> {}]

NextRun ==
  \/ BuildStyleSheet
  \/ BuildResolveIncludes
  \/ ResolveIncludesEnter
  \/ ExpandLoopsStep
  \/ ExpandLoopsOverflow
  \/ ExpandLoopsReturn
  \/ IncludeCallback
  \/ ReplaceDone
  \/ ResolveIncludesReturn
  \/ BuildApplyVariables
  \/ CopyText
  \/ VarCallback
  \/ ApplyVariablesReturn
  \/ WriteIndexFile
  \/ BuildGenerateMktoMetaTags
  \/ WriteMarketoFile
  \/ RunReturn
  \/ OnAll

\* the builds run on until they return; a change of a file is not bound
\* to come
SpecRun == InitRun /\ [][NextRun]_vars /\ WF_vars(NextRun)

(***************************************************************************)
(* Claims about applyVariables.                                            *)
(***************************************************************************)
\* the modifiers that declare a type other than string
DeclaresNonString(tok) ==
  tok.t = "ph" /\ ModifierType(ToLowerCase(tok.m)) # "string"

\* the type the first non-string occurrence of varName declares, or string
FirstNonStringType(doc, varName) ==
  LET occ == {x \in 1 .. Len(doc) : doc[x].s = varName /\ DeclaresNonString(doc[x])}
  IN  IF occ = {} THEN "string"
      ELSE ModifierType(ToLowerCase(
             doc[CHOOSE x \in occ : \A z \in occ : x <= z].m))

\* C8: when applyVariables has processed a document, the type of every
\* descriptor is the type of the first occurrence of its name that declares a
\* non-string type, and string only if no occurrence declares one
C8_FirstNonStringTypeWins ==
  pc = "done" =>
    \A x \in 1 .. Len(varMeta) :
      varMeta[x].type = FirstNonStringType(html, varMeta[x].name)

\* the entities escapeHtml produces
Entities ==
  { <<"&", "a", "m", "p", ";">>, <<"&", "q", "u", "o", "t", ";">>,
    <<"&", "l", "t", ";">>, <<"&", "g", "t", ";">> }

\* the character at x of piece begins one of the entities
StartsEntity(piece, x) ==
  \E e \in Entities :
    /\ x + Len(e) - 1 <= Len(piece)
    /\ SubSeq(piece, x, x + Len(e) - 1) = e

AttrSafe(piece) ==
  \A x \in 1 .. Len(piece) :
    /\ piece[x] \notin {"<", ">", "\""}
    /\ piece[x] = "&" => StartsEntity(piece, x)

IsAttr(tok) == tok.t = "ph" /\ ToLowerCase(tok.m) = "attr"

\* C9: in preview mode the text substituted for ${name|attr} holds none of
\* < > " and holds & only as the first character of &amp; &quot; &lt; &gt;
C9_AttrValueIsEscaped ==
  mode = "dev" =>
    \A x \in 1 .. Len(processed) : IsAttr(html[x]) => AttrSafe(processed[x])

\* a value with all four characters has been substituted for ${x|attr}
C9_Witness ==
  /\ mode = "dev" /\ pc = "done"
  /\ \E x \in 1 .. Len(processed) :
       /\ IsAttr(html[x])
       /\ HasOwnProperty(contentMap, html[x].s)
       /\ {"&", "<", "\""} \subseteq
            {Get(contentMap, html[x].s).chars[z] :
               z \in 1 .. Len(Get(contentMap, html[x].s).chars)}
       /\ Len(processed[x]) > Len(Get(contentMap, html[x].s).chars)

\* what a token becomes in build mode, from the text alone
BuildPiece(tok) == IF tok.t = "ph" THEN <<"${", tok.s, "}">> ELSE <<tok.s>>

\* C10: in build mode the text applyVariables returns is a function of the
\* input document alone, the same for every dataset, and every placeholder
\* ${name} or ${name|modifier} stands in it as ${name}
C10_BuildOutputIgnoresDataset ==
  mode = "build" =>
    \A x \in 1 .. Len(processed) : processed[x] = BuildPiece(html[x])

\* build mode is through with a text whose placeholder has a modifier and a
\* value in the dataset
C10_Witness ==
  /\ mode = "build" /\ pc = "done"
  /\ \E x \in 1 .. Len(processed) :
       /\ html[x].t = "ph" /\ html[x].m # ""
       /\ HasOwnProperty(contentMap, html[x].s)

\* the names that occur as placeholders in a text
PlaceholderNames(doc) == {doc[x].s : x \in {z \in 1 .. Len(doc) : doc[z].t = "ph"}}

\* C11: the descriptors applyVariables returns are one for every distinct
\* name that occurs as a placeholder in the document, and none for any
\* other name, in preview mode and in build mode
C11_OneDescriptorPerName ==
  pc = "done" =>
    /\ {varMeta[x].name : x \in 1 .. Len(varMeta)} = PlaceholderNames(html)
    /\ \A x, z \in 1 .. Len(varMeta) : varMeta[x].name = varMeta[z].name => x = z

\* where a name first occurs as a placeholder in a text
FirstOccurrence(doc, name) ==
  CHOOSE x \in 1 .. Len(doc) :
    /\ doc[x].t = "ph" /\ doc[x].s = name
    /\ \A z \in 1 .. Len(doc) : (doc[z].t = "ph" /\ doc[z].s = name) => x <= z

\* C12: generateMktoMetaTags emits the meta tags in the order in which the
\* names first occur in the document, all-digit names included, whatever
\* the key order of the dataset
C12_MetaTagsInFirstOccurrenceOrder ==
  pc = "generated" =>
    \A a, b \in 1 .. Len(metaTags) :
      a < b => FirstOccurrence(html, metaTags[a].id) < FirstOccurrence(html, metaTags[b].id)

\* the placeholder at x of the text has a nested object as its dataset value
HasObjectValue(x) ==
  /\ html[x].t = "ph"
  /\ HasOwnProperty(contentMap, html[x].s)
  /\ Get(contentMap, html[x].s).kind = "object"

C14_TypeModifiersKeepPreview ==
  mode = "dev" =>
    \A x \in 1 .. Len(processed) :
      (html[x].t = "ph"
         /\ ToLowerCase(html[x].m) \in {"number", "boolean", "color", "image"}) =>
        processed[x] = CallbackReturn(html[x].s, "", contentMap, "dev")

\* the conflict diagnostics among the warnings
Conflicts(dg) == Cardinality({x \in 1 .. Len(dg) : dg[x].kind = "conflict"})

\* the step is the replace callback at an occurrence of a name whose
\* descriptor at x holds a non-string type
OccurrenceOfTyped(x) ==
  /\ x \in 1 .. Len(varMeta)
  /\ varMeta[x].type # "string"
  /\ Len(processed) < Len(html)
  /\ Len(processed') = Len(processed) + 1
  /\ html[Len(processed) + 1].t = "ph"
  /\ html[Len(processed) + 1].s = varMeta[x].name

\* C16: in one pass a descriptor that holds a non-string type T keeps T; a
\* later occurrence of the name that declares another non-string type emits
\* exactly one conflict diagnostic, one that declares T or no type emits none
C16_NonStringTypeIsKept ==
  [][\A x \in 1 .. Len(varMeta) :
       /\ varMeta[x].type # "string" =>
            /\ x <= Len(varMeta')
            /\ varMeta'[x].name = varMeta[x].name
            /\ varMeta'[x].type = varMeta[x].type
       /\ OccurrenceOfTyped(x) =>
            LET declared == ModifierType(ToLowerCase(html[Len(processed) + 1].m))
            IN  Conflicts(diag') - Conflicts(diag) =
                  IF declared \notin {"string", varMeta[x].type} THEN 1 ELSE 0]_vars

\* ${x|number} then ${x|boolean}: the pass is through, x is a number and
\* there is one conflict diagnostic
C16_Witness ==
  /\ pc = "done"
  /\ html = <<Ph("x", "number"), Ph("x", "boolean")>>
  /\ varMeta = <<[name |-> "x", type |-> "number", allowHTML |-> FALSE]>>
  /\ Conflicts(diag) = 1

\* the name has occurred with the html modifier in the part of the text
\* that has been processed
HtmlRequested(name) ==
  \E x \in 1 .. Len(processed) :
    html[x].t = "ph" /\ html[x].s = name /\ ToLowerCase(html[x].m) = "html"

\* C17: in one pass allowHTML of a descriptor is true from the first
\* occurrence of its name with the html modifier on, the first occurrence
\* of the name or a later one, and no later occurrence resets it
C17_AllowHTMLIsMonotonic ==
  \A x \in 1 .. Len(varMeta) : varMeta[x].allowHTML = HtmlRequested(varMeta[x].name)

\* html was asked for at the second occurrence of x and another modifier
\* came after it
C17_Witness ==
  /\ pc = "done"
  /\ html = <<Ph("x", ""), Ph("x", "html"), Ph("x", "number")>>
  /\ varMeta = <<[name |-> "x", type |-> "string", allowHTML |-> TRUE]>>

\* C15: in watch mode an event on an .scss file rebuilds the stylesheet
\* only (dist/styles.css is written, dist/index.html and
\* final/index.marketo.html are not), and an event on any other watched
\* file rebuilds the outputs
C15_ScssRebuildsOnlyStyles ==
  pc = "watching" =>
    /\ writes.event = ".scss" => writes.files = {"styles"}
    /\ writes.event \in {".html", ".yaml"} => {"index", "marketo"} \subseteq writes.files

\* C18: nothing survives from one build to the next: after any builds,
\* a build over the sources the process started with gives the resolved
\* text, the descriptors and the outputs its first build gave
C18_BuildsAreIndependent ==
  (/\ pc = "watching"
   /\ fs = first.fs /\ src.scss = first.scss /\ src.yaml = first.yaml) =>
    /\ dist = first.dist
    /\ retval = first.resolved
    /\ varMeta = first.usedVars

====
